---------------------------- MODULE Spec2Model ----------------------------
(***************************************************************************)
(* rivet: an NTFS index kept in a concurrent id -> FileRecord table         *)
(* (Indexer.records, a DashMap) that is written by the bulk loader          *)
(* (Indexer::index_volume), the size sweep (Indexer::fetch_sizes) and the   *)
(* journal monitor (Monitor::start_monitoring), and read by the path        *)
(* resolver (Indexer::get_full_path) and the table view (RivetApp::update). *)
(*                                                                         *)
(* The Store is a finite map: DOMAIN records is the set of keys present.    *)
(* Every DashMap operation used by the program (get, get_mut + field write, *)
(* insert) takes the shard lock of its key and is one atomic step here;     *)
(* everything between two such operations is an interleaving point.         *)
(***************************************************************************)
EXTENDS Integers, Sequences, FiniteSets, TLC

VARIABLES
    records,      \* Indexer.records : id -> FileRecord
    cancelled,    \* the shared CancellationToken
    bgpc,         \* background thread of main.rs:37-46 (index_volume, then fetch_sizes)
    ivResult,     \* what index_volume returned: "none", "ok" or an error record
    it,           \* the MftIter of index_volume's for loop
    entry,        \* the item iter.next() handed to the loop body
    sweep,        \* fetch_sizes' locals: all_ids, i, is_dir, current_size, size
    mpc,          \* monitor thread of main.rs:49-54 (start_monitoring)
    mon,          \* start_monitoring's locals: entry, size, result
    walk,         \* one invocation of get_full_path: its locals and its result; `ref`
                  \* is the Ref (shard read lock) its caller holds between steps
    hist          \* history of the run (not program state): who upserted what, and
                  \* what the background thread had done when cancellation was signalled

vars == <<records, cancelled, bgpc, ivResult, it, entry, sweep, mpc, mon, walk, hist>>

None == [none |-> TRUE]

---------------------------------------------------------------------------
(* FileRecord (mft_indexer.rs:14-21) *)

FileRecord(id, parent_id, name, size, modified, is_dir) ==
    [id |-> id, parent_id |-> parent_id, name |-> name, size |-> size,
     modified |-> modified, is_dir |-> is_dir]

\* A FILETIME read from the MFT is carried as it is; the monitor computes
\* (secs + 11_644_473_600) * 10_000_000 from the journal's SystemTime, and 0 when
\* the time lies before the Unix epoch.  The product exceeds TLC's integers, so a
\* timestamp is kept as <<origin, count>>.
FileTimeTicks(ticks) == <<"ticks", ticks>>

FileTimeOfUnixSecs(secs) ==
    IF secs >= 0 THEN <<"unix_secs", secs>> ELSE FileTimeTicks(0)

\* an upsert that updates an existing record field by field and misses the name
StoreInsertKeepsName(store, rec) ==
    [k \in (DOMAIN store) \cup {rec.id} |->
        IF k # rec.id THEN store[k]
        ELSE IF k \in DOMAIN store THEN [rec EXCEPT !.name = store[k].name]
        ELSE rec]

\* an insert that leaves an existing record alone (entry().or_insert)
StoreInsertIfAbsent(store, rec) ==
    [k \in (DOMAIN store) \cup {rec.id} |-> IF k \in DOMAIN store THEN store[k] ELSE rec]

\* an insert keyed by the record's parent
StoreInsertUnderParent(store, rec) ==
    [k \in (DOMAIN store) \cup {rec.parent_id} |->
        IF k = rec.parent_id THEN rec ELSE store[k]]

\* DashMap::insert(key, value): insert or replace the whole value.
StoreInsert(store, rec) ==
    [k \in (DOMAIN store) \cup {rec.id} |-> IF k = rec.id THEN rec ELSE store[k]]

---------------------------------------------------------------------------
(* Indexer::get_full_path (mft_indexer.rs:143-163) *)

\* visited.len() > 64
DepthLimit == 64

RECURSIVE Reverse(_)
Reverse(s) == IF s = <<>> THEN <<>> ELSE Append(Reverse(Tail(s)), Head(s))

\* components.join(sep)
RECURSIVE Join(_, _)
Join(s, sep) ==
    IF s = <<>> THEN ""
    ELSE IF Len(s) = 1 THEN s[1]
    ELSE s[1] \o sep \o Join(Tail(s), sep)

\* components.reverse(); format!("{}:\\{}", drive_letter, components.join("\\"))
FormatPath(drive, components) == drive \o ":\\" \o Join(Reverse(components), "\\")

WalkIdle ==
    [pc |-> "idle", drive |-> "C", id |-> 0, current_id |-> 0, visited |-> {},
     components |-> <<>>, steps |-> 0, result |-> "", ref |-> {}]

\* the locals at entry: components = [], current_id = id, visited = {}
WalkBegin(id, drive) ==
    [pc |-> "loop", drive |-> drive, id |-> id, current_id |-> id, visited |-> {},
     components |-> <<>>, steps |-> 0, result |-> "", ref |-> {}]

WalkFinish(w, visited, components) ==
    [w EXCEPT !.pc = "done", !.visited = visited, !.components = components,
              !.steps = w.steps + 1,
              !.result = FormatPath(w.drive, components)]

\* the loop guard without the revisit test
WalkMustBreakDepthOnly(w) ==
    Cardinality(w.visited \cup {w.current_id}) > DepthLimit

\* the loop guard with the depth test off by one
WalkMustBreakAtLimit(w) ==
    \/ w.current_id \in w.visited
    \/ Cardinality(w.visited \cup {w.current_id}) >= DepthLimit

\* the loop guard with the depth test one too far
WalkMustBreakPastLimit(w) ==
    \/ w.current_id \in w.visited
    \/ Cardinality(w.visited \cup {w.current_id}) > DepthLimit + 1

\* `!visited.insert(current_id) || visited.len() > 64`
WalkMustBreak(w) ==
    \/ w.current_id \in w.visited
    \/ Cardinality(w.visited \cup {w.current_id}) > DepthLimit

\* `record.parent_id == current_id || record.parent_id == 0`
IsRootRecord(record, current_id) ==
    record.parent_id = current_id \/ record.parent_id = 0

\* a walk that gives up the names it has collected when it meets an absent id
WalkIterDropsPartial(store, w) ==
    IF w.current_id \notin DOMAIN store
    THEN WalkFinish(w, w.visited, <<>>)
    ELSE LET record == store[w.current_id]
             visited == w.visited \cup {w.current_id}
             components == Append(w.components, record.name)
         IN IF WalkMustBreak(w)
            THEN WalkFinish(w, visited, w.components)
            ELSE IF IsRootRecord(record, w.current_id)
            THEN WalkFinish(w, visited, components)
            ELSE [w EXCEPT !.visited = visited, !.components = components,
                           !.steps = w.steps + 1,
                           !.current_id = record.parent_id]

\* One evaluation of the `while let Some(record) = self.records.get(&current_id)`
\* head and, when it yields a record, of the loop body.  The Ref (shard read lock)
\* is taken by get and dropped at the end of the body.
WalkIter(store, w) ==
    IF w.current_id \notin DOMAIN store
    THEN WalkFinish(w, w.visited, w.components)
    ELSE LET record == store[w.current_id]
             visited == w.visited \cup {w.current_id}
             components == Append(w.components, record.name)
         IN IF WalkMustBreak(w)
            THEN WalkFinish(w, visited, w.components)
            ELSE IF IsRootRecord(record, w.current_id)
            THEN WalkFinish(w, visited, components)
            ELSE [w EXCEPT !.visited = visited, !.components = components,
                           !.steps = w.steps + 1,
                           !.current_id = record.parent_id]

---------------------------------------------------------------------------
(* The volume as the operating system reports it *)

\* A USN_RECORD_V2 as FSCTL_ENUM_USN_DATA lays it out in the response.  FileName is
\* the UTF-16 tail, one code unit per element; FileNameLength counts bytes.
RawRecord(len, fid, parent, units, ts, attrs) ==
    [RecordLength |-> len, FileReferenceNumber |-> fid,
     ParentFileReferenceNumber |-> parent, FileNameLength |-> 2 * Len(units),
     FileName |-> units, TimeStamp |-> ts, FileAttributes |-> attrs]

\* FILE_ATTRIBUTE_DIRECTORY.0
FILE_ATTRIBUTE_DIRECTORY == 16

\* The MFT of the modelled volume, in file-reference order: a root directory that is
\* its own parent, and a file in it.
MftRecords ==
    << RawRecord(72, 1, 1, <<"U", "s", "e", "r", "s">>, 5, FILE_ATTRIBUTE_DIRECTORY),
       RawRecord(72, 2, 1, <<"a", ".", "t", "x", "t">>, 6, 2 * FILE_ATTRIBUTE_DIRECTORY) >>

\* How many records the system packs into one response (the real bound is the
\* 128 KiB buffer of MftEnumerator::iter).
BatchRecords == 1

\* `self.offset = 8; // Skip the next start FID`
CursorBytes == 8

RECURSIVE FromCursor(_, _)
FromCursor(recs, cursor) ==
    IF recs = <<>> THEN <<>>
    ELSE IF Head(recs).FileReferenceNumber >= cursor THEN recs
    ELSE FromCursor(Tail(recs), cursor)

RECURSIVE Layout(_, _)
\* the records of a response as offset -> record, packed from `at` on
Layout(recs, at) ==
    IF recs = <<>> THEN [o \in {} |-> None]
    ELSE LET rest == Layout(Tail(recs), at + Head(recs).RecordLength)
         IN [o \in (DOMAIN rest) \cup {at} |-> IF o = at THEN Head(recs) ELSE rest[o]]

RECURSIVE TotalLength(_)
TotalLength(recs) ==
    IF recs = <<>> THEN 0 ELSE Head(recs).RecordLength + TotalLength(Tail(recs))

\* What DeviceIoControl(FSCTL_ENUM_USN_DATA) with StartFileReferenceNumber = cursor
\* can answer: ERROR_HANDLE_EOF past the last record, any other failure at any time,
\* fewer than 8 bytes, the next cursor alone, or the next cursor and a batch.
EnumResponses(cursor) ==
    LET left == FromCursor(MftRecords, cursor)
        batch == SubSeq(left, 1, IF Len(left) < BatchRecords THEN Len(left) ELSE BatchRecords)
    IN  {[kind |-> "fail"], [kind |-> "short"]}
        \cup (IF left = <<>>
              THEN {[kind |-> "eof"]}
              ELSE {[kind |-> "data", next |-> batch[1].FileReferenceNumber,
                     bytes_returned |-> CursorBytes, buffer |-> Layout(<<>>, CursorBytes)],
                    [kind |-> "data", next |-> batch[Len(batch)].FileReferenceNumber + 1,
                     bytes_returned |-> CursorBytes + TotalLength(batch),
                     buffer |-> Layout(batch, CursorBytes)]})

---------------------------------------------------------------------------
(* MftEnumerator / MftIter (mft_enumerator.rs) *)

MftEntry(fid, parent_fid, name, modified, is_dir) ==
    [fid |-> fid, parent_fid |-> parent_fid, name |-> name, modified |-> modified,
     is_dir |-> is_dir]

\* MftEnumerator::iter: cursor 0, nothing buffered
IterNew ==
    [next_start_fid |-> 0, offset |-> 0, bytes_read |-> 0,
     buffer |-> Layout(<<>>, CursorBytes)]

RECURSIVE Concat(_)
Concat(units) == IF units = <<>> THEN "" ELSE Head(units) \o Concat(Tail(units))

\* A UTF-16 code unit is a one-character string; an unpaired surrogate, which NTFS
\* accepts in a file name, is the unit UnpairedSurrogate.
UnpairedSurrogate == "<D800>"

\* U+FFFD REPLACEMENT CHARACTER
ReplacementChar == "<FFFD>"

\* OsStr::to_string_lossy: the units as text, each unpaired surrogate replaced
ToStringLossy(units) ==
    Concat([i \in DOMAIN units |->
               IF units[i] = UnpairedSurrogate THEN ReplacementChar ELSE units[i]])

\* OsString::from_wide(&FileName[..FileNameLength / 2]).to_string_lossy()
DecodeName(record) == ToStringLossy(SubSeq(record.FileName, 1, record.FileNameLength \div 2))

\* (record.FileAttributes & FILE_ATTRIBUTE_DIRECTORY.0) != 0
IsDirectory(attrs) == (attrs \div FILE_ATTRIBUTE_DIRECTORY) % 2 = 1

ParseEntry(record) ==
    MftEntry(record.FileReferenceNumber, record.ParentFileReferenceNumber,
             DecodeName(record), FileTimeTicks(record.TimeStamp),
             IsDirectory(record.FileAttributes))

NoItem == [kind |-> "none"]

---------------------------------------------------------------------------
(* History of the run.  Nothing below is read by the program's actions. *)

HistInit ==
    [last |-> [k \in {} |-> None],    \* per id, the last complete upsert: by, rec, the
                                      \* writer it replaced (over), and the size the
                                      \* sweep has committed since (swept, -1: none)
     monitor_upsert |-> NoItem,       \* the monitor's latest upsert: id, old, new
     loaded |-> {},                   \* the ids index_volume has inserted
     at_cancel |-> NoItem,            \* the background thread when the signal was set
     inserts_after |-> 0,             \* index_volume's inserts since the signal
     commits_after |-> 0,             \* fetch_sizes' commits since the signal
     full |-> TRUE]                   \* FALSE: only the signal and the two counters
                                      \* are recorded

\* the history that records the cancellation signal and the two counters alone
HistCounters == [HistInit EXCEPT !.full = FALSE]

OldRecord(store, id) == IF id \in DOMAIN store THEN store[id] ELSE None

HistUpsert(h, by, store, rec, is_cancelled) ==
    IF ~h.full
    THEN [h EXCEPT !.inserts_after = IF by = "loader" /\ is_cancelled THEN @ + 1 ELSE @]
    ELSE
    [h EXCEPT
       !.last = [k \in (DOMAIN h.last) \cup {rec.id} |->
                    IF k = rec.id
                    THEN [by |-> by, rec |-> rec, swept |-> -1,
                          over |-> IF k \in DOMAIN h.last THEN h.last[k].by ELSE "none"]
                    ELSE h.last[k]],
       !.monitor_upsert =
           IF by = "monitor"
           THEN [kind |-> "up", id |-> rec.id, old |-> OldRecord(store, rec.id), new |-> rec]
           ELSE IF h.monitor_upsert.kind = "up" /\ h.monitor_upsert.id = rec.id
           THEN NoItem
           ELSE h.monitor_upsert,
       !.loaded = IF by = "loader" THEN @ \cup {rec.id} ELSE @,
       !.inserts_after = IF by = "loader" /\ is_cancelled THEN @ + 1 ELSE @]

HistCommit(h, id, size, is_cancelled) ==
    IF ~h.full
    THEN [h EXCEPT !.commits_after = IF is_cancelled THEN @ + 1 ELSE @]
    ELSE
    [h EXCEPT
       !.last = [k \in DOMAIN h.last |->
                    IF k = id THEN [h.last[k] EXCEPT !.swept = size] ELSE h.last[k]],
       !.commits_after = IF is_cancelled THEN @ + 1 ELSE @]

---------------------------------------------------------------------------
(* The Store's locks.  A DashMap operation locks the shard of its key for its own  *)
(* duration, which is inside one step here; the only lock that outlives a step is   *)
(* the Ref the table view keeps while it renders a row (gui.rs:229-257).  Which     *)
(* keys share a shard depends on their hashes: all keys are taken to share one, the *)
(* case in which a held Ref blocks the most.                                        *)

ShardOf(k) == "shard"

\* insert and get_mut wait while another context holds a Ref into the key's shard
WriteBlocked(k) == \E held \in walk.ref : ShardOf(held) = ShardOf(k)

---------------------------------------------------------------------------
(* Indexer::index_volume (mft_indexer.rs:35-93), run by main.rs:37-46 *)

IvReturn(result) ==
    /\ bgpc' = "iv_return"
    /\ ivResult' = result

IvErr(at, fid) == [kind |-> "err", at |-> at, fid |-> fid]

IvOk == [kind |-> "ok"]

\* CreateFileW(volume_path, ..)?  (lines 38-48)
IvOpenVolume ==
    /\ bgpc = "iv_open"
    /\ \/ bgpc' = "iv_query" /\ UNCHANGED ivResult
       \/ IvReturn(IvErr("open", 0))
    /\ UNCHANGED <<records, cancelled, it, entry, sweep, mpc, mon, walk, hist>>

\* DeviceIoControl(FSCTL_QUERY_USN_JOURNAL), CloseHandle, bail on Err  (lines 53-70)
IvQueryJournal ==
    /\ bgpc = "iv_query"
    /\ \/ bgpc' = "iv_enum_new" /\ UNCHANGED ivResult
       \/ IvReturn(IvErr("query", 0))
    /\ UNCHANGED <<records, cancelled, it, entry, sweep, mpc, mon, walk, hist>>

\* MftEnumerator::new(drive_letter)? and enumerator.iter()  (lines 72-74)
IvEnumeratorNew ==
    /\ bgpc = "iv_enum_new"
    /\ \/ bgpc' = "iter_next" /\ it' = IterNew /\ UNCHANGED ivResult
       \/ IvReturn(IvErr("enum_new", 0)) /\ UNCHANGED it
    /\ UNCHANGED <<records, cancelled, entry, sweep, mpc, mon, walk, hist>>

\* MftIter::next, buffered branch (mft_enumerator.rs:73-91)
IterYield ==
    /\ bgpc = "iter_next"
    /\ it.offset < it.bytes_read
    /\ it.offset \in DOMAIN it.buffer
    /\ LET record == it.buffer[it.offset]
       IN /\ it' = [it EXCEPT !.offset = @ + record.RecordLength]
          /\ entry' = [kind |-> "ok", e |-> ParseEntry(record)]
    /\ bgpc' = "iv_check"
    /\ UNCHANGED <<records, cancelled, ivResult, sweep, mpc, mon, walk, hist>>

\* a refill that keeps the cursor it queried from
IterRefillKeepsCursor ==
    /\ bgpc = "iter_next"
    /\ ~(it.offset < it.bytes_read)
    /\ \E r \in EnumResponses(it.next_start_fid) :
         \/ /\ r.kind \in {"eof", "short"}
            /\ IvReturn(IvOk)
            /\ entry' = NoItem
            /\ UNCHANGED it
         \/ /\ r.kind = "fail"
            /\ entry' = [kind |-> "err", fid |-> it.next_start_fid]
            /\ bgpc' = "iv_check"
            /\ UNCHANGED <<it, ivResult>>
         \/ /\ r.kind = "data"
            /\ it' = [next_start_fid |-> it.next_start_fid, offset |-> CursorBytes,
                      bytes_read |-> r.bytes_returned, buffer |-> r.buffer]
            /\ UNCHANGED <<bgpc, entry, ivResult>>
    /\ UNCHANGED <<records, cancelled, sweep, mpc, mon, walk, hist>>

\* MftIter::next, refill branch (mft_enumerator.rs:93-132).  None ends the for loop
\* and index_volume returns Ok(()) (mft_indexer.rs:92).
IterRefill ==
    /\ bgpc = "iter_next"
    /\ ~(it.offset < it.bytes_read)
    /\ \E r \in EnumResponses(it.next_start_fid) :
         \/ /\ r.kind \in {"eof", "short"}
            /\ IvReturn(IvOk)
            /\ entry' = NoItem
            /\ UNCHANGED it
         \/ /\ r.kind = "fail"
            /\ entry' = [kind |-> "err", fid |-> it.next_start_fid]
            /\ bgpc' = "iv_check"
            /\ UNCHANGED <<it, ivResult>>
         \/ /\ r.kind = "data"
            /\ it' = [next_start_fid |-> r.next, offset |-> CursorBytes,
                      bytes_read |-> r.bytes_returned, buffer |-> r.buffer]
            /\ UNCHANGED <<bgpc, entry, ivResult>>
    /\ UNCHANGED <<records, cancelled, sweep, mpc, mon, walk, hist>>

\* a loop body that never looks at the token
IvIgnoresCancel(is_cancelled) == FALSE

\* `if token.is_cancelled() { return Ok(()); }`  (mft_indexer.rs:75-77)
IvStopOnCancel(is_cancelled) == is_cancelled

IvCheckCancel ==
    /\ bgpc = "iv_check"
    /\ IF IvStopOnCancel(cancelled)
       THEN IvReturn(IvOk) /\ entry' = NoItem
       ELSE bgpc' = "iv_insert" /\ UNCHANGED <<ivResult, entry>>
    /\ UNCHANGED <<records, cancelled, it, sweep, mpc, mon, walk, hist>>

\* the FileRecord index_volume builds from an entry  (mft_indexer.rs:80-87)
LoaderRecord(e) == FileRecord(e.fid, e.parent_fid, e.name, 0, e.modified, e.is_dir)

\* a loop body that drops a failed entry and pulls the next one
IvInsertRetries ==
    /\ bgpc = "iv_insert"
    /\ IF entry.kind = "err"
       THEN UNCHANGED <<records, hist>>
       ELSE /\ records' = StoreInsert(records, LoaderRecord(entry.e))
            /\ hist' = HistUpsert(hist, "loader", records, LoaderRecord(entry.e), cancelled)
    /\ bgpc' = "iter_next"
    /\ entry' = NoItem
    /\ UNCHANGED <<ivResult, cancelled, it, sweep, mpc, mon, walk>>

\* `let entry = entry?;` then build the record and insert it  (mft_indexer.rs:78-89)
IvInsert ==
    /\ bgpc = "iv_insert"
    /\ IF entry.kind = "err"
       THEN /\ IvReturn(IvErr("enumerate", entry.fid))
            /\ UNCHANGED <<records, hist>>
       ELSE /\ ~WriteBlocked(entry.e.fid)
            /\ records' = StoreInsert(records, LoaderRecord(entry.e))
            /\ hist' = HistUpsert(hist, "loader", records, LoaderRecord(entry.e), cancelled)
            /\ bgpc' = "iter_next"
            /\ UNCHANGED ivResult
    /\ entry' = NoItem
    /\ UNCHANGED <<cancelled, it, sweep, mpc, mon, walk>>

\* a thread body with the test of index_volume's result inverted
RunsSweepOnError(result) == result.kind = "err"

\* a thread body that runs fetch_sizes whatever index_volume returned
RunsSweepAlways(result) == TRUE

\* main.rs:39-45: an Err is printed and the thread ends; Ok goes on to fetch_sizes
RunsSweep(result) == result.kind = "ok"

BgAfterIndex ==
    /\ bgpc = "iv_return"
    /\ bgpc' = IF RunsSweep(ivResult) THEN "fs_snapshot" ELSE "bg_exit"
    /\ UNCHANGED <<records, cancelled, ivResult, it, entry, sweep, mpc, mon, walk, hist>>

---------------------------------------------------------------------------
(* The metadata query GetFileAttributesExW *)

\* the largest file size the modelled volume answers
MaxSize == 1

\* The call fails, or answers a size; an empty file answers 0.  nFileSizeHigh is 0
\* for every modelled file, so ((high << 32) | low) is low.
StatOutcomes == {[ok |-> FALSE, size |-> 0]} \cup {[ok |-> TRUE, size |-> n] : n \in 0..MaxSize}

---------------------------------------------------------------------------
(* Indexer::fetch_sizes (mft_indexer.rs:95-141) *)

SweepIdle ==
    [all_ids |-> <<>>, i |-> 1, is_dir |-> FALSE, current_size |-> 0, size |-> 0,
     started |-> {}]

\* the orders in which DashMap::iter can hand out the keys
Orderings(S) ==
    {f \in [1..Cardinality(S) -> S] : \A a, b \in 1..Cardinality(S) : a # b => f[a] # f[b]}

\* `let all_ids: Vec<u64> = self.records.iter().map(|r| *r.key()).collect();`
\* DashMap::iter locks one shard after the other, so the collection is not one atomic
\* read: it hands out every key present when it starts (no key is ever removed) and
\* any of the keys inserted while it runs.  `started` holds the keys present at the
\* start.
FsSnapshot ==
    /\ bgpc = "fs_snapshot"
    /\ sweep' = [SweepIdle EXCEPT !.started = DOMAIN records]
    /\ bgpc' = "fs_collect"
    /\ UNCHANGED <<records, cancelled, ivResult, it, entry, mpc, mon, walk, hist>>

FsCollect ==
    /\ bgpc = "fs_collect"
    /\ \E later \in SUBSET ((DOMAIN records) \ sweep.started) :
         \E ids \in Orderings(sweep.started \cup later) :
            sweep' = [SweepIdle EXCEPT !.all_ids = ids]
    /\ bgpc' = "fs_loop"
    /\ UNCHANGED <<records, cancelled, ivResult, it, entry, mpc, mon, walk, hist>>

\* the for loop's head and `if token.is_cancelled() { break; }`  (lines 104-105)
FsLoop ==
    /\ bgpc = "fs_loop"
    /\ bgpc' = IF sweep.i > Len(sweep.all_ids) \/ cancelled THEN "bg_exit" ELSE "fs_read"
    /\ UNCHANGED <<records, cancelled, ivResult, it, entry, sweep, mpc, mon, walk, hist>>

\* a loop that does not move on to the next id
SweepNextRepeats(sw) == [sw EXCEPT !.is_dir = FALSE, !.current_size = 0, !.size = 0]

SweepNext(sw) == [sw EXCEPT !.i = @ + 1, !.is_dir = FALSE, !.current_size = 0, !.size = 0]

\* `if is_dir || current_size > 0 { continue; }`  (lines 117-119)
SweepSkips(is_dir, current_size) == is_dir \/ current_size > 0

\* 1. read (is_dir, size) under the read lock, skip what needs no fetch (lines 111-119)
FsRead ==
    /\ bgpc = "fs_read"
    /\ LET id == sweep.all_ids[sweep.i]
       IN IF id \notin DOMAIN records
          THEN sweep' = SweepNext(sweep) /\ bgpc' = "fs_loop"
          ELSE IF SweepSkips(records[id].is_dir, records[id].size)
          THEN sweep' = SweepNext(sweep) /\ bgpc' = "fs_loop"
          ELSE /\ sweep' = [sweep EXCEPT !.is_dir = records[id].is_dir,
                                         !.current_size = records[id].size,
                                         !.size = 0]
               /\ bgpc' = "fs_stat"
    /\ UNCHANGED <<records, cancelled, ivResult, it, entry, mpc, mon, walk, hist>>

\* a sweep that gives up at the first metadata query that fails
FsStatAbandons ==
    /\ bgpc = "fs_stat"
    /\ \E out \in StatOutcomes :
         IF out.ok
         THEN sweep' = [sweep EXCEPT !.size = out.size] /\ bgpc' = "fs_commit"
         ELSE sweep' = [sweep EXCEPT !.size = -1] /\ bgpc' = "bg_exit"
    /\ UNCHANGED <<records, cancelled, ivResult, it, entry, mpc, mon, walk, hist>>

\* 2. get_full_path and 3. GetFileAttributesExW on it, no lock held (lines 122-132).
\* The answer is the system's.  On a failure `size` is None (-1 here): step 4 has
\* nothing to commit and the loop goes to the next id.
FsStat ==
    /\ bgpc = "fs_stat"
    /\ \E out \in StatOutcomes :
         IF out.ok
         THEN sweep' = [sweep EXCEPT !.size = out.size] /\ bgpc' = "fs_commit"
         ELSE sweep' = [SweepNext(sweep) EXCEPT !.size = -1] /\ bgpc' = "fs_loop"
    /\ UNCHANGED <<records, cancelled, ivResult, it, entry, mpc, mon, walk, hist>>

\* a commit that also stamps the record
StoreSetSizeStamps(store, id, s) ==
    IF id \in DOMAIN store
    THEN [store EXCEPT ![id].size = s, ![id].modified = FileTimeTicks(0)]
    ELSE store

\* a commit that takes a record whose size is 0 out of the table
StoreSetSizeDropsEmpty(store, id, s) ==
    IF s = 0 THEN [k \in (DOMAIN store) \ {id} |-> store[k]]
    ELSE IF id \in DOMAIN store THEN [store EXCEPT ![id].size = s] ELSE store

\* `item.size = s` on the Store's current record of the id
StoreSetSize(store, id, s) ==
    IF id \in DOMAIN store THEN [store EXCEPT ![id].size = s] ELSE store

\* 4. `if let Some(mut item) = self.records.get_mut(id) { item.size = s; }` (136-138)
FsCommit ==
    /\ bgpc = "fs_commit"
    /\ ~WriteBlocked(sweep.all_ids[sweep.i])
    /\ records' = StoreSetSize(records, sweep.all_ids[sweep.i], sweep.size)
    /\ hist' = HistCommit(hist, sweep.all_ids[sweep.i], sweep.size, cancelled)
    /\ sweep' = SweepNext(sweep)
    /\ bgpc' = "fs_loop"
    /\ UNCHANGED <<cancelled, ivResult, it, entry, mpc, mon, walk>>

---------------------------------------------------------------------------
(* Monitor::start_monitoring (usn_monitor.rs:18-63), run by main.rs:49-54 *)

JournalEntry(fid, parent_fid, file_name, time, is_dir) ==
    [fid |-> fid, parent_fid |-> parent_fid, file_name |-> file_name, time |-> time,
     is_dir |-> is_dir]

\* The change entries the journal can deliver, in any order and any number of times:
\* the file renamed and made its own parent, the root moved under the file (with the
\* MFT's link 2 -> 1 a cycle), and the file's id reported as a directory under an id
\* the Store never holds, stamped before the Unix epoch and named with an unpaired
\* surrogate.  file_name is an OsString: the UTF-16 units of the name.
JournalEntries ==
    { JournalEntry(2, 2, <<"b", ".", "t", "x", "t">>, 1, FALSE),
      JournalEntry(1, 2, <<"U", "s", "e", "r", "s">>, 1, TRUE),
      JournalEntry(2, 3, <<"a", UnpairedSurrogate>>, -1, TRUE) }

MonIdle == [entry |-> NoItem, size |-> 0, result |-> NoItem]

\* `Volume::from_drive_letter(drive_letter)?`  (line 19)
MonOpen ==
    /\ mpc = "m_open"
    /\ \/ mpc' = "m_poll" /\ UNCHANGED mon
       \/ mpc' = "m_exit" /\ mon' = [mon EXCEPT !.result = [kind |-> "err"]]
    /\ UNCHANGED <<records, cancelled, bgpc, ivResult, it, entry, sweep, walk, hist>>

\* a loop head that does not look at the token
MonPollIgnoresCancel ==
    /\ mpc = "m_poll"
    /\ (mpc' = "m_drain" \/ mpc' = "m_sleep") /\ UNCHANGED mon
    /\ UNCHANGED <<records, cancelled, bgpc, ivResult, it, entry, sweep, walk, hist>>

\* the loop head: return Ok(()) on cancellation, else `journal.iter()` (lines 22-28);
\* an Err from iter() skips the drain
MonPoll ==
    /\ mpc = "m_poll"
    /\ IF cancelled
       THEN mpc' = "m_exit" /\ mon' = [mon EXCEPT !.result = [kind |-> "ok"]]
       ELSE (mpc' = "m_drain" \/ mpc' = "m_sleep") /\ UNCHANGED mon
    /\ UNCHANGED <<records, cancelled, bgpc, ivResult, it, entry, sweep, walk, hist>>

\* the journal entry the monitor's latest upsert was built from
HistEntry(h, e) ==
    IF ~h.full THEN h ELSE
    [h EXCEPT !.monitor_upsert =
        [kind |-> "up", id |-> @.id, old |-> @.old, new |-> @.new, entry |-> e]]

\* the `record` a drain handed out was an Err
Malformed == [kind |-> "malformed"]

\* a drain in which a malformed record makes start_monitoring return the error
MonDrainFailsOnMalformed ==
    /\ mpc = "m_drain"
    /\ \/ mpc' = "m_sleep" /\ mon' = MonIdle
       \/ mpc' = "m_exit" /\ mon' = [mon EXCEPT !.entry = Malformed, !.result = [kind |-> "err"]]
       \/ \E e \in JournalEntries :
            /\ mon' = [mon EXCEPT !.entry = [kind |-> "ok", e |-> e], !.size = 0]
            /\ mpc' = IF e.is_dir THEN "m_insert" ELSE "m_stat"
    /\ UNCHANGED <<records, cancelled, bgpc, ivResult, it, entry, sweep, walk, hist>>

\* `for record in iter { if let Ok(entry) = record {` (lines 29-32): the drain ends,
\* hands out a malformed record (nothing is done for it and the for loop goes on to
\* the next record), or hands out an entry
MonDrain ==
    /\ mpc = "m_drain"
    /\ \/ mpc' = "m_sleep" /\ mon' = MonIdle
       \/ mpc' = "m_drain" /\ mon' = [mon EXCEPT !.entry = Malformed]
       \/ \E e \in JournalEntries :
            /\ mon' = [mon EXCEPT !.entry = [kind |-> "ok", e |-> e], !.size = 0]
            /\ mpc' = IF e.is_dir THEN "m_insert" ELSE "m_stat"
    /\ UNCHANGED <<records, cancelled, bgpc, ivResult, it, entry, sweep, walk, hist>>

\* get_full_path and GetFileAttributesExW for a non-directory (lines 33-39); size
\* stays 0 when the call fails
MonStat ==
    /\ mpc = "m_stat"
    /\ \E out \in StatOutcomes : mon' = [mon EXCEPT !.size = IF out.ok THEN out.size ELSE 0]
    /\ mpc' = "m_insert"
    /\ UNCHANGED <<records, cancelled, bgpc, ivResult, it, entry, sweep, walk, hist>>

\* a record built with the entry's own id in the place of its parent
MonitorRecordUnderSelf(e, size) ==
    FileRecord(e.fid, e.fid, ToStringLossy(e.file_name), size,
               FileTimeOfUnixSecs(e.time), e.is_dir)

\* the FileRecord the monitor builds from an entry  (lines 42-54)
MonitorRecord(e, size) ==
    FileRecord(e.fid, e.parent_fid, ToStringLossy(e.file_name), size,
               FileTimeOfUnixSecs(e.time), e.is_dir)

\* `self.indexer.records.insert(file_record.id, file_record);`  (line 56)
MonInsert ==
    /\ mpc = "m_insert"
    /\ ~WriteBlocked(mon.entry.e.fid)
    /\ LET rec == MonitorRecord(mon.entry.e, mon.size)
       IN /\ records' = StoreInsert(records, rec)
          /\ hist' = HistEntry(HistUpsert(hist, "monitor", records, rec, cancelled),
                               mon.entry.e)
    /\ mon' = MonIdle
    /\ mpc' = "m_drain"
    /\ UNCHANGED <<cancelled, bgpc, ivResult, it, entry, sweep, walk>>

\* `std::thread::sleep(500 ms)`  (line 61)
MonSleep ==
    /\ mpc = "m_sleep"
    /\ mpc' = "m_poll"
    /\ UNCHANGED <<records, cancelled, bgpc, ivResult, it, entry, sweep, mon, walk, hist>>

---------------------------------------------------------------------------
(* An invocation of get_full_path, one loop iteration per step.  Its callers are *)
(* the table view (gui.rs:228), the sweep and the monitor; all pass 'C'.          *)

\* the ids a caller may ask for: the keys, and ids next to them that may be absent
ProbeIds(store) == (DOMAIN store) \cup {k + 1 : k \in DOMAIN store} \cup {1}

WalkCall(id, drive) ==
    /\ walk.pc = "idle"
    /\ walk' = WalkBegin(id, drive)
    /\ UNCHANGED <<records, cancelled, bgpc, ivResult, it, entry, sweep, mpc, mon, hist>>

WalkStep ==
    /\ walk.pc = "loop"
    /\ walk' = WalkIter(records, walk)
    /\ UNCHANGED <<records, cancelled, bgpc, ivResult, it, entry, sweep, mpc, mon, hist>>

\* the caller takes the String; the context is free for the next call
WalkReturn ==
    /\ walk.pc = "done"
    /\ walk' = WalkIdle
    /\ UNCHANGED <<records, cancelled, bgpc, ivResult, it, entry, sweep, mpc, mon, hist>>

---------------------------------------------------------------------------
(* A row of the table view (gui.rs:225-258): get_full_path(id, 'C') as above, then  *)
(* `if let Some(record) = self.indexer.records.get(&id)` with the Ref alive until   *)
(* the row's four cells are drawn.                                                  *)

\* a view that keeps the Ref of the row beyond the row
RowDropLeaks ==
    /\ walk.pc = "row"
    /\ walk' = [WalkIdle EXCEPT !.ref = walk.ref]
    /\ UNCHANGED <<records, cancelled, bgpc, ivResult, it, entry, sweep, mpc, mon, hist>>

\* gui.rs:229: the get; an absent id draws nothing
RowGet ==
    /\ walk.pc = "done"
    /\ walk' = IF walk.id \in DOMAIN records
               THEN [walk EXCEPT !.pc = "row", !.ref = {walk.id}]
               ELSE WalkIdle
    /\ UNCHANGED <<records, cancelled, bgpc, ivResult, it, entry, sweep, mpc, mon, hist>>

\* gui.rs:230-257: the cells are drawn from `record` and `full_path`; the Ref is
\* dropped at the end of the if-let
RowDrop ==
    /\ walk.pc = "row"
    /\ walk' = WalkIdle
    /\ UNCHANGED <<records, cancelled, bgpc, ivResult, it, entry, sweep, mpc, mon, hist>>

View == RowGet \/ RowDrop

---------------------------------------------------------------------------
(* RivetApp::on_exit (gui.rs:150-152): `self.cancel_token.cancel()` *)

\* index_volume is inside its for loop over the enumerator
Draining == {"iter_next", "iv_check", "iv_insert"}

\* where the background thread was when the signal was set, as far as the loop of
\* index_volume is concerned
HistCancel(h) ==
    [h EXCEPT !.at_cancel =
        [kind |-> "set",
         bgpc |-> IF h.full /\ bgpc \in Draining THEN bgpc ELSE "elsewhere",
         entry |-> IF h.full /\ bgpc = "iv_insert" THEN entry.kind ELSE "none"]]

Cancel ==
    /\ ~cancelled
    /\ cancelled' = TRUE
    /\ hist' = HistCancel(hist)
    /\ UNCHANGED <<records, bgpc, ivResult, it, entry, sweep, mpc, mon, walk>>

---------------------------------------------------------------------------
(* The program: main.rs:28-54 builds an empty Indexer and a fresh token and starts *)
(* the two background threads.                                                      *)

EmptyStore == [k \in {} |-> None]

Init ==
    /\ records = EmptyStore
    /\ cancelled = FALSE
    /\ bgpc = "iv_open"
    /\ ivResult = NoItem
    /\ it = IterNew
    /\ entry = NoItem
    /\ sweep = SweepIdle
    /\ mpc = "m_open"
    /\ mon = MonIdle
    /\ walk = WalkIdle
    /\ hist = HistInit

Loader ==
    \/ IvOpenVolume \/ IvQueryJournal \/ IvEnumeratorNew
    \/ IterYield \/ IterRefill \/ IvCheckCancel \/ IvInsert \/ BgAfterIndex

Sweep == FsSnapshot \/ FsCollect \/ FsLoop \/ FsRead \/ FsStat \/ FsCommit

Monitor == MonOpen \/ MonPoll \/ MonDrain \/ MonStat \/ MonInsert \/ MonSleep

Resolver == (\E id \in ProbeIds(records) : WalkCall(id, "C")) \/ WalkStep \/ WalkReturn

\* The three writer contexts and the cancellation signal.  The resolver context
\* writes nothing they read, so it is left to WalkSpec.
Next == Loader \/ Sweep \/ Monitor \/ Cancel

Spec == Init /\ [][Next]_vars

\* The same program with its scheduling: each background thread keeps being run
\* (main.rs:37-54 spawns both on OS threads), and a journal drain that can end does
\* end (the journal's iterator is finite).  The history is limited to the signal and
\* the two counters.
FairInit ==
    /\ records = EmptyStore
    /\ cancelled = FALSE
    /\ bgpc = "iv_open"
    /\ ivResult = NoItem
    /\ it = IterNew
    /\ entry = NoItem
    /\ sweep = SweepIdle
    /\ mpc = "m_open"
    /\ mon = MonIdle
    /\ walk = WalkIdle
    /\ hist = HistCounters

FairSpec ==
    /\ FairInit /\ [][Next]_vars
    /\ WF_vars(Loader)
    /\ WF_vars(Sweep)
    /\ WF_vars(Monitor)
    /\ SF_vars(MonDrain /\ mpc' = "m_sleep")

\* All four contexts together, the history limited as in FairSpec.
LockNext == Loader \/ Sweep \/ Monitor \/ Resolver \/ View \/ Cancel

LockSpec == FairInit /\ [][LockNext]_vars

\* get_full_path against the writers of name and parent_id: the bulk loader and the
\* monitor (the sweep writes size alone, which the walk never reads).
WalkNext == Loader \/ Monitor \/ Resolver

WalkSpec == Init /\ [][WalkNext]_vars

---------------------------------------------------------------------------
(* get_full_path as a function of the Store: the Store is drawn from a family of *)
(* parent chains and no writer runs.                                              *)

\* how far past the depth limit the drawn chains reach
ChainSlack == 2

ChainLengths == {1, 2, 3} \cup ((DepthLimit - 1)..(DepthLimit + ChainSlack))

ChainName(i) == <<"a", "b", "c">>[(i % 3) + 1]

\* Records 1..n, record i a child of record i - 1; record 1 is the top of the chain:
\* a root by parent 0 or by being its own parent, a child of an absent id, a child
\* of the bottom record (a cycle through the whole chain), or a child of record 2 (a
\* cycle of two that the records below lead into).
ChainStore(n, top) ==
    [i \in 1..n |->
        FileRecord(i,
                   IF i > 1 THEN i - 1
                   ELSE IF top = "zero" THEN 0
                   ELSE IF top = "self" THEN 1
                   ELSE IF top = "dangling" THEN n + 1
                   ELSE IF top = "cycle" THEN n
                   ELSE IF n > 1 THEN 2 ELSE 1,
                   ChainName(i), 0, FileTimeTicks(5), i < n)]

\* spec.md section 8: Users (5) with a.txt (9) in it, and 100 <-> 101 as mutual parents
ExampleStore ==
    [k \in {5, 9, 100, 101} |->
        IF k = 5 THEN FileRecord(5, 0, "Users", 0, FileTimeTicks(5), TRUE)
        ELSE IF k = 9 THEN FileRecord(9, 5, "a.txt", 1234, FileTimeTicks(6), FALSE)
        ELSE IF k = 100 THEN FileRecord(100, 101, "x", 0, FileTimeTicks(7), TRUE)
        ELSE FileRecord(101, 100, "y", 0, FileTimeTicks(7), TRUE)]

PathStores ==
    {ChainStore(n, top) : n \in ChainLengths, top \in {"zero", "self", "dangling", "cycle", "rho"}}
    \cup {ExampleStore, EmptyStore}

Drives == {"C", "D"}

PathInit ==
    /\ records \in PathStores
    /\ cancelled = FALSE
    /\ bgpc = "iv_open"
    /\ ivResult = NoItem
    /\ it = IterNew
    /\ entry = NoItem
    /\ sweep = SweepIdle
    /\ mpc = "m_open"
    /\ mon = MonIdle
    /\ walk = WalkIdle
    /\ hist = HistInit

PathNext ==
    \/ \E id \in ProbeIds(records), drive \in Drives : WalkCall(id, drive)
    \/ WalkStep
    \/ WalkReturn

PathSpec == PathInit /\ [][PathNext]_vars

---------------------------------------------------------------------------
(* MftIter::next on what a refill left in the buffer: the iterator is drawn from a  *)
(* family of buffers, some with a record whose RecordLength does not match the      *)
(* bytes the query returned.  `buffer` is the memory as the parser reinterprets it: *)
(* a record may lie in it beyond bytes_read.                                        *)

\* the declared lengths and returned byte counts drawn: the right ones, a declared
\* length of 0, a declared length that reaches past the returned bytes, and a
\* response cut off in the middle of the record
BufferShapes ==
    {[len |-> 72, bytes |-> CursorBytes + 72],
     [len |-> 0, bytes |-> CursorBytes + 72],
     [len |-> 144, bytes |-> CursorBytes + 72],
     [len |-> 72, bytes |-> CursorBytes + 36]}

EnumBuffers ==
    {[next_start_fid |-> cursor, offset |-> CursorBytes, bytes_read |-> shape.bytes,
      buffer |-> Layout(<<[MftRecords[i] EXCEPT !.RecordLength = shape.len]>>, CursorBytes)] :
        cursor \in 1..3, i \in DOMAIN MftRecords, shape \in BufferShapes}

EnumInit ==
    /\ records = EmptyStore
    /\ cancelled = FALSE
    /\ bgpc = "iter_next"
    /\ ivResult = NoItem
    /\ it \in EnumBuffers
    /\ entry = NoItem
    /\ sweep = SweepIdle
    /\ mpc = "m_open"
    /\ mon = MonIdle
    /\ walk = WalkIdle
    /\ hist = HistCounters

EnumNext == IterYield \/ IterRefill \/ IvCheckCancel \/ IvInsert \/ Cancel

EnumSpec == EnumInit /\ [][EnumNext]_vars

---------------------------------------------------------------------------
(* Claims *)

\* C1: get_full_path terminates for every Store content and every id, also while
\* other writers change parent links between its steps: the walk is over after at
\* most DepthLimit + 1 evaluations of the loop head, because every evaluation that
\* does not end the walk adds a new id to `visited`, which holds at most DepthLimit
\* ids while the loop runs.
WalkTerminates ==
    /\ walk.pc = "loop" =>
          /\ walk.steps = Cardinality(walk.visited)
          /\ Cardinality(walk.visited) <= DepthLimit
    /\ walk.pc = "done" =>
          /\ walk.steps <= Cardinality(walk.visited) + 1
          /\ walk.steps <= DepthLimit + 1

\* a walk that went round a cycle and ended on the revisit of its starting id, whose
\* record a writer has replaced since the walk read its name
WalkEndedOnCycleUnderWrites ==
    /\ walk.pc = "done"
    /\ walk.current_id = walk.id
    /\ walk.current_id \in walk.visited
    /\ walk.steps = Cardinality(walk.visited) + 1
    /\ Len(walk.components) >= 2
    /\ records[walk.id].name # walk.components[1]

\* the number of records on the parent chain of id up to its root, when the chain
\* reaches a root within `fuel` records; -1 otherwise (n counts the records passed)
RECURSIVE RootDistanceFrom(_, _, _, _)
RootDistanceFrom(store, id, n, fuel) ==
    IF fuel = 0 \/ id \notin DOMAIN store THEN -1
    ELSE IF store[id].parent_id = 0 \/ store[id].parent_id = id THEN n + 1
    ELSE RootDistanceFrom(store, store[id].parent_id, n + 1, fuel - 1)

RootDistance(store, id, fuel) == RootDistanceFrom(store, id, 0, fuel)

\* the names from the topmost ancestor down to id, in front of `below`
RECURSIVE NamesAbove(_, _, _)
NamesAbove(store, id, below) ==
    IF store[id].parent_id = 0 \/ store[id].parent_id = id
    THEN <<store[id].name>> \o below
    ELSE NamesAbove(store, store[id].parent_id, <<store[id].name>> \o below)

NamesFromRoot(store, id) == NamesAbove(store, id, <<>>)

\* C2: with no concurrent writer, for an id whose parent chain is acyclic, has at
\* most 64 records and ends at a root (parent_id 0 or parent_id = id),
\* get_full_path(id, drive) is "<drive>:\" followed by the names from the topmost
\* ancestor down to id joined by "\"; a root alone resolves to "<drive>:\<name>".
ResolvesRootedChain ==
    (walk.pc = "done" /\ RootDistance(records, walk.id, 64) > 0) =>
        /\ walk.result = walk.drive \o ":\\" \o Join(NamesFromRoot(records, walk.id), "\\")
        /\ RootDistance(records, walk.id, 64) = 1 =>
              walk.result = walk.drive \o ":\\" \o records[walk.id].name

\* a chain of exactly 64 records resolved in full
ResolvedChainOf64 ==
    /\ walk.pc = "done"
    /\ RootDistance(records, walk.id, 64) = 64
    /\ Len(walk.components) = 64

\* C3: in every interleaving of fetch_sizes with the journal monitor, fetch_sizes
\* never writes the size field of a record whose is_dir is true at the moment of the
\* write.
SweepNeverSizesDirectory ==
    [][FsCommit => ~records[sweep.all_ids[sweep.i]].is_dir]_vars

\* C4: a size commit by fetch_sizes never changes a record's size from a nonzero
\* value to zero.
SweepNeverZeroesSize ==
    [][FsCommit => ~(/\ records[sweep.all_ids[sweep.i]].size > 0
                     /\ records'[sweep.all_ids[sweep.i]].size = 0)]_vars

\* C5: once the record stored at an id has a nonzero size, no later operation of the
\* bulk loader, the size sweep or the journal monitor puts a record with size 0 at
\* that id.
SizeNeverResetToUnknown ==
    [][\A k \in DOMAIN records : records[k].size > 0 => records'[k].size > 0]_vars

\* every field but size
Five(rec) ==
    [id |-> rec.id, parent_id |-> rec.parent_id, name |-> rec.name,
     modified |-> rec.modified, is_dir |-> rec.is_dir]

\* C6: when the journal monitor upserts a record for an id already in the Store, any
\* read of that id by another context (also while the size sweep is running)
\* observes either all six fields of the old record or all six fields of the
\* monitor's new record.  A read by records.get(&id) returns the Store's record of
\* the state it runs in, so the claim is stated of every state from the monitor's
\* upsert to the next upsert of the id.
MonitorUpsertReadWhole ==
    (hist.monitor_upsert.kind = "up" /\ hist.monitor_upsert.old # None) =>
        \/ records[hist.monitor_upsert.id] = hist.monitor_upsert.new
        \/ records[hist.monitor_upsert.id] = hist.monitor_upsert.old

\* C6 as amended: id, parent_id, name, modified and is_dir read after the monitor's
\* upsert are all the new record's, never a mixture with the old record's; the size
\* read is the new record's, or the size the sweep has committed to the id since.
MonitorUpsertReadUnmixed ==
    (hist.monitor_upsert.kind = "up" /\ hist.monitor_upsert.old # None) =>
        LET u == hist.monitor_upsert
            swept == hist.last[u.id].swept
        IN /\ Five(records[u.id]) = Five(u.new)
           /\ records[u.id].size = IF swept = -1 THEN u.new.size ELSE swept

\* the monitor replaced a record by one with another name and parent, and the sweep
\* then committed a size the new record did not have
SweepSizedMonitorsRecord ==
    /\ hist.monitor_upsert.kind = "up"
    /\ hist.monitor_upsert.old # None
    /\ hist.monitor_upsert.old.name # hist.monitor_upsert.new.name
    /\ hist.monitor_upsert.old.parent_id # hist.monitor_upsert.new.parent_id
    /\ hist.last[hist.monitor_upsert.id].swept # -1
    /\ records[hist.monitor_upsert.id].size # hist.monitor_upsert.new.size

\* the records a complete upsert can write, size left out
CompleteFives ==
    {Five(LoaderRecord(ParseEntry(MftRecords[i]))) : i \in DOMAIN MftRecords}
    \cup {Five(MonitorRecord(e, 0)) : e \in JournalEntries}

\* C7: when the bulk loader and the journal monitor upsert the same id, the record
\* stored at that id is at every moment the record of one complete upsert as far as
\* id, parent_id, name, modified and is_dir are concerned, and it is the record of
\* the upsert whose insert completed last.
UpsertsLeaveWholeRecord ==
    \A k \in DOMAIN records :
        /\ k \in DOMAIN hist.last
        /\ Five(records[k]) = Five(hist.last[k].rec)
        /\ Five(records[k]) \in CompleteFives

\* the loader's insert of id 2 completed after the monitor's upsert of id 2
LoaderInsertedOverMonitor ==
    /\ 2 \in DOMAIN records
    /\ hist.last[2].by = "loader"
    /\ hist.last[2].over = "monitor"
    /\ records[2].name = "a.txt"

CancelledWhileDraining ==
    hist.at_cancel.kind = "set" /\ hist.at_cancel.bgpc \in Draining

\* what index_volume has inserted is in the Store as it was inserted
StoreIsWhole == \A k \in DOMAIN records : records[k] = hist.last[k].rec

\* C8: once the cancellation signal is set while index_volume is draining the
\* enumerator, index_volume inserts at most one further record and then returns
\* without an error, and every record then present in the Store is a complete record
\* that was inserted whole.
CancelEndsLoadWithoutError ==
    CancelledWhileDraining =>
        /\ hist.inserts_after <= 1
        /\ ivResult.kind \in {"none", "ok"}
        /\ bgpc = "iv_return" => StoreIsWhole

\* C8 as amended: at most one further insert, which is of the entry that had passed
\* the cancellation check when the signal was set; index_volume returns without an
\* error unless that entry is an enumeration error, which it returns having inserted
\* nothing further; the records present at the return were inserted whole.
CancelEndsLoad ==
    CancelledWhileDraining =>
        /\ hist.inserts_after <= 1
        /\ bgpc = "iv_insert" =>
              hist.at_cancel.bgpc = "iv_insert" /\ hist.inserts_after = 0
        /\ ivResult.kind = "err" =>
              /\ ivResult.at = "enumerate"
              /\ hist.at_cancel.bgpc = "iv_insert"
              /\ hist.at_cancel.entry = "err"
              /\ hist.inserts_after = 0
        /\ bgpc = "iv_return" => StoreIsWhole

\* cancelled in mid-load: one more record went in, the rest of the MFT did not, and
\* index_volume returned Ok
CancelledMidLoad ==
    /\ CancelledWhileDraining
    /\ hist.inserts_after = 1
    /\ bgpc = "iv_return"
    /\ ivResult.kind = "ok"
    /\ hist.loaded = {1}

\* C9: if opening the volume or querying the change journal fails at the start of
\* index_volume, it returns an error without inserting any record and without
\* starting the enumerator, the size sweep is never run for that load, and the
\* journal monitor and foreground reads keep running: the monitor stops only on
\* cancellation or on its own open failure, and nothing but the view's exit cancels.
StartFailureIsLocal ==
    (ivResult.kind = "err" /\ ivResult.at \in {"open", "query"}) =>
        /\ hist.loaded = {}
        /\ it = IterNew /\ entry = NoItem
        /\ bgpc \in {"iv_return", "bg_exit"} /\ sweep = SweepIdle
        /\ mpc = "m_exit" => (cancelled \/ mon.result.kind = "err")
        /\ cancelled => hist.at_cancel.kind = "set"
        /\ (~cancelled /\ mpc # "m_exit") => ENABLED Monitor
        /\ ENABLED Resolver

\* the journal query failed, the background thread is over, and the monitor has
\* since put a record into the Store
MonitorWritesAfterStartFailure ==
    /\ ivResult.kind = "err"
    /\ ivResult.at = "query"
    /\ bgpc = "bg_exit"
    /\ mpc = "m_drain"
    /\ DOMAIN records # {}

\* the loop body takes a step while the item in hand is an enumeration failure
HandlesFailure == entry.kind = "err" /\ bgpc' # bgpc

\* the parts of C10 that do not depend on which value is returned: the failure names
\* the cursor of the failed query, handling it changes neither the Store nor the
\* monitor nor the token, the unwrap returns, and a pass that has returned is not
\* entered again
FailureEndsPass ==
    /\ (entry'.kind = "err" /\ entry.kind # "err") => entry'.fid = it.next_start_fid
    /\ HandlesFailure =>
          /\ records' = records
          /\ UNCHANGED <<mpc, mon, cancelled>>
          /\ bgpc = "iv_insert" => bgpc' = "iv_return"
    /\ ivResult.kind # "none" =>
          /\ ivResult' = ivResult
          /\ it' = it
          /\ bgpc' \notin Draining

\* C10: if the enumerator yields a failure after n records were inserted,
\* index_volume returns that error, the n records stay in the Store unchanged by the
\* failure, the pass is not retried, and the journal monitor keeps running.
EnumFailureIsReturned ==
    [][/\ FailureEndsPass
       /\ (HandlesFailure /\ bgpc' = "iv_return") =>
              ivResult' = IvErr("enumerate", entry.fid)]_vars

\* C10 as amended: index_volume returns that error unless the token is cancelled when
\* the loop body checks it, in which case it returns Ok and the failure is dropped.
EnumFailureIsReturnedUnlessCancelled ==
    [][/\ FailureEndsPass
       /\ (HandlesFailure /\ bgpc' = "iv_return") =>
              IF bgpc = "iv_check"
              THEN cancelled /\ ivResult' = IvOk
              ELSE ivResult' = IvErr("enumerate", entry.fid)
       /\ (HandlesFailure /\ bgpc = "iv_check" /\ ~cancelled) => bgpc' = "iv_insert"]_vars

\* the query from cursor 2 failed after record 1 was inserted: index_volume returned
\* that error, record 1 is in the Store, and the monitor is draining the journal
FailedAfterOneRecord ==
    /\ ivResult = IvErr("enumerate", 2)
    /\ hist.loaded = {1}
    /\ 1 \in DOMAIN records
    /\ bgpc = "bg_exit"
    /\ mpc = "m_drain"

\* the step is a complete upsert of id k: the loader's or the monitor's insert
UpsertsId(k) ==
    \/ /\ bgpc = "iv_insert" /\ bgpc' = "iter_next"
       /\ entry.kind = "ok" /\ entry.e.fid = k
       /\ records'[k] = LoaderRecord(entry.e)
    \/ /\ mpc = "m_insert" /\ mpc' = "m_drain"
       /\ mon.entry.e.fid = k
       /\ records'[k] = MonitorRecord(mon.entry.e, mon.size)

\* the step is the sweep's commit of a size to id k
CommitsSizeOf(k) ==
    bgpc = "fs_commit" /\ bgpc' = "fs_loop" /\ sweep.all_ids[sweep.i] = k

\* C11: no operation of the bulk loader, the size sweep or the journal monitor removes
\* a key from the Store: the set of ids present only grows, and the record at an id
\* stays (its id, parent_id, name, modified and is_dir as they are, its size changed
\* by nothing but the sweep's commit) until an upsert for the same id replaces it.
StoreOnlyGrows ==
    [][\A k \in DOMAIN records :
          /\ k \in DOMAIN records'
          /\ Five(records'[k]) # Five(records[k]) => UpsertsId(k)
          /\ records'[k].size # records[k].size => (UpsertsId(k) \/ CommitsSizeOf(k))]_vars

\* both MFT records are in the Store after the load and the sweep are over, the file's
\* record replaced by a monitor upsert and sized by the sweep
StoreKeptReplacedRecords ==
    /\ DOMAIN records = {1, 2}
    /\ bgpc = "bg_exit"
    /\ hist.last[2].by = "monitor"
    /\ hist.last[2].over = "loader"
    /\ hist.last[2].swept = 1

\* C12: only a failure to open the journal at the start of start_monitoring makes the
\* monitor return an error; after that, a poll whose journal read fails and a
\* malformed record inside a batch change nothing in the Store, the drain goes on
\* after a malformed record and upserts the entries that follow, and every poll is
\* followed by the sleep and the next poll: the loop is left only on cancellation,
\* with Ok.
MonitorSwallowsReadFailures ==
    [][/\ (mon'.result.kind = "err" /\ mon.result.kind # "err") => mpc = "m_open"
       /\ (mpc' = "m_exit" /\ mpc # "m_exit" /\ mpc # "m_open") =>
              mpc = "m_poll" /\ cancelled /\ mon'.result.kind = "ok"
       /\ (mpc = "m_poll" /\ mpc' = "m_sleep") => records' = records
       /\ (mon'.entry = Malformed /\ mon.entry # Malformed) =>
              records' = records /\ mpc = "m_drain" /\ mpc' = "m_drain"
       /\ (mon.entry = Malformed /\ mon'.entry.kind = "ok") =>
              mpc' \in {"m_stat", "m_insert"}
       /\ (mpc = "m_insert" /\ mpc' # mpc) =>
              /\ mpc' = "m_drain"
              /\ records'[mon.entry.e.fid] = MonitorRecord(mon.entry.e, mon.size)
       /\ (mpc = "m_sleep" /\ mpc' # mpc) => mpc' = "m_poll"
       /\ (mpc = "m_poll" /\ mpc' # mpc /\ ~cancelled) => mpc' \in {"m_drain", "m_sleep"}]_vars

\* a drain that upserted an entry, which is in the Store, has since met a malformed
\* record and goes on
DrainGoesOnAfterMalformedRecord ==
    /\ mon.entry = Malformed
    /\ mpc = "m_drain"
    /\ mon.result = NoItem
    /\ hist.monitor_upsert.kind = "up"
    /\ records[hist.monitor_upsert.id] = hist.monitor_upsert.new

\* the number of records on the parent chain of id before the chain reaches an id
\* absent from the Store, when it does so within `fuel` records and before any root;
\* -1 otherwise (n counts the records passed)
RECURSIVE DanglingDistanceFrom(_, _, _, _)
DanglingDistanceFrom(store, id, n, fuel) ==
    IF id \notin DOMAIN store THEN n
    ELSE IF fuel = 0 THEN -1
    ELSE IF store[id].parent_id = 0 \/ store[id].parent_id = id THEN -1
    ELSE DanglingDistanceFrom(store, store[id].parent_id, n + 1, fuel - 1)

DanglingDistance(store, id, fuel) == DanglingDistanceFrom(store, id, 0, fuel)

\* the names from the record below the absent id down to id, in front of `below`
RECURSIVE NamesBelowAbsent(_, _, _)
NamesBelowAbsent(store, id, below) ==
    IF id \notin DOMAIN store THEN below
    ELSE NamesBelowAbsent(store, store[id].parent_id, <<store[id].name>> \o below)

\* C13: get_full_path never fails on a dangling link: for an id absent from the Store
\* it returns "<drive>:\" with no components, and when the walk reaches a parent_id
\* that is absent from the Store it returns the path made of the names collected so
\* far, topmost first.
ResolvesDanglingChain ==
    (walk.pc = "done" /\ DanglingDistance(records, walk.id, DepthLimit) >= 0) =>
        /\ walk.current_id \notin DOMAIN records
        /\ Len(walk.components) = DanglingDistance(records, walk.id, DepthLimit)
        /\ walk.result =
              walk.drive \o ":\\" \o Join(NamesBelowAbsent(records, walk.id, <<>>), "\\")
        /\ walk.id \notin DOMAIN records =>
              walk.components = <<>> /\ walk.result = walk.drive \o ":\\"

\* a walk over three records that ended at the absent parent of the third
ResolvedUpToAbsentParent ==
    /\ walk.pc = "done"
    /\ DanglingDistance(records, walk.id, DepthLimit) = 3
    /\ walk.result = walk.drive \o ":\\b\\c\\a"

\* the ids on the parent chain of id, nearest first, up to and including a root, or up
\* to the last record before an absent id or before an id already passed
RECURSIVE ChainIds(_, _, _, _)
ChainIds(store, id, seen, acc) ==
    IF id \notin DOMAIN store \/ id \in seen THEN acc
    ELSE IF store[id].parent_id = 0 \/ store[id].parent_id = id THEN Append(acc, id)
    ELSE ChainIds(store, store[id].parent_id, seen \cup {id}, Append(acc, id))

\* C14: the path returned by get_full_path has at most 64 components and names no id
\* twice.  With the parent chain of the starting id followed until a root, an absent
\* id or a revisit, the components are the names of the chain's records, one each,
\* when the chain has at most 64 records (a chain of exactly 64 is resolved in full,
\* and on a cycle the walk stops at the revisit), and the names of the 64 records
\* nearest to the starting id when it has more.
WalkNamesChainOnce ==
    walk.pc = "done" =>
        LET ids == ChainIds(records, walk.id, {}, <<>>)
            n == IF Len(ids) > DepthLimit THEN DepthLimit ELSE Len(ids)
        IN /\ Len(walk.components) <= 64
           /\ \A i, j \in 1..n : i # j => ids[i] # ids[j]
           /\ walk.components = [i \in 1..n |-> records[ids[i]].name]
           /\ walk.result = FormatPath(walk.drive, [i \in 1..n |-> records[ids[i]].name])
           /\ Len(ids) <= DepthLimit => walk.visited = {ids[i] : i \in 1..n}

\* a walk from the bottom of a chain of 66 records that stopped with the names of
\* records 66 down to 3
TruncatedDeepChain ==
    /\ walk.pc = "done"
    /\ walk.id = DepthLimit + ChainSlack
    /\ Len(ChainIds(records, walk.id, {}, <<>>)) = DepthLimit + ChainSlack
    /\ Len(walk.components) = DepthLimit
    /\ walk.current_id = ChainSlack

\* the monitor's latest upsert has not been followed by another write to its id
MonitorUpsertStands ==
    /\ hist.monitor_upsert.kind = "up"
    /\ hist.last[hist.monitor_upsert.id].swept = -1

\* what C15 says of id, parent_id, is_dir and size
EntryValuesStored(e, r) ==
    /\ r.id = e.fid
    /\ r.parent_id = e.parent_fid
    /\ r.is_dir = e.is_dir
    /\ e.is_dir => r.size = 0

\* C15: after the journal monitor processes a well-formed change entry, and before any
\* other write to that id, the Store holds at the entry's id a record whose id,
\* parent_id, name and is_dir are the entry's values whether or not the id was present
\* before, and whose size is 0 when the entry is a directory.
MonitorStoresEntryValues ==
    MonitorUpsertStands =>
        LET e == hist.monitor_upsert.entry
        IN /\ e.fid \in DOMAIN records
           /\ EntryValuesStored(e, records[e.fid])
           /\ records[e.fid].name = Concat(e.file_name)

\* C15 as amended: the name is the entry's file name as to_string_lossy renders it,
\* each unpaired surrogate replaced by U+FFFD.
MonitorStoresLossyName ==
    MonitorUpsertStands =>
        LET e == hist.monitor_upsert.entry
        IN /\ e.fid \in DOMAIN records
           /\ EntryValuesStored(e, records[e.fid])
           /\ records[e.fid].name = ToStringLossy(e.file_name)

\* a directory entry replaced the sized record of a file: parent, name and is_dir
\* are the entry's and the size is 0
DirectoryEntryReplacedSizedFile ==
    /\ MonitorUpsertStands
    /\ hist.monitor_upsert.entry.is_dir
    /\ hist.monitor_upsert.old # None
    /\ ~hist.monitor_upsert.old.is_dir
    /\ hist.monitor_upsert.old.size > 0
    /\ records[hist.monitor_upsert.id].size = 0
    /\ records[hist.monitor_upsert.id].parent_id = 3

\* C16: fetch_sizes changes nothing in the Store except the size field of records that
\* already exist: no step of it inserts a key, every step leaves id, parent_id, name,
\* modified and is_dir of every record as they are, and the only record a step
\* changes is the one at the id it commits to.
SweepWritesSizeOnly ==
    [][Sweep =>
          /\ DOMAIN records' = DOMAIN records
          /\ \A k \in DOMAIN records :
                /\ Five(records'[k]) = Five(records[k])
                /\ records'[k] # records[k] => CommitsSizeOf(k)]_vars

\* the sweep has just committed size 1 to the loader's record of the file
SweepSizedLoadersRecord ==
    /\ bgpc = "fs_loop"
    /\ 2 \in DOMAIN records
    /\ hist.last[2].by = "loader"
    /\ hist.last[2].swept = 1
    /\ records[2] = [hist.last[2].rec EXCEPT !.size = 1]

\* fetch_sizes is inside its for loop over the snapshot
Sweeping == {"fs_loop", "fs_read", "fs_stat", "fs_commit"}

SnapshotIds == {sweep.all_ids[j] : j \in DOMAIN sweep.all_ids}

\* C17: fetch_sizes only ever writes to ids that were in the Store when it took its id
\* snapshot: the snapshot holds the keys present when the collection started and no
\* key that was not present when it ended, each once; it is not changed afterwards; the loop index only moves forward, one id at a time,
\* so each snapshot id is processed at most once; and no step of the sweep changes a
\* record whose id is not in the snapshot, such as one the monitor inserted later.
SweepKeepsToSnapshot ==
    /\ [](bgpc \in Sweeping =>
             /\ \A a, b \in DOMAIN sweep.all_ids : a # b => sweep.all_ids[a] # sweep.all_ids[b]
             /\ sweep.i \in 1..(Len(sweep.all_ids) + 1)
             /\ bgpc # "fs_loop" => sweep.i <= Len(sweep.all_ids))
    /\ [][Sweep =>
             /\ bgpc = "fs_snapshot" => sweep'.started = DOMAIN records
             /\ bgpc = "fs_collect" =>
                   /\ sweep.started \subseteq {sweep'.all_ids[j] : j \in DOMAIN sweep'.all_ids}
                   /\ {sweep'.all_ids[j] : j \in DOMAIN sweep'.all_ids} \subseteq DOMAIN records
             /\ bgpc \in Sweeping =>
                   /\ sweep'.all_ids = sweep.all_ids
                   /\ sweep'.i = IF bgpc' = "fs_loop" THEN sweep.i + 1 ELSE sweep.i
             /\ \A k \in (DOMAIN records) \ SnapshotIds : records'[k] = records[k]
             /\ records' # records => sweep.all_ids[sweep.i] \in SnapshotIds]_vars

\* the snapshot held the file's id alone; the monitor inserted id 1 afterwards; the
\* sweep sized the file, left id 1 alone, and is over
SweepLeftLaterInsertAlone ==
    /\ bgpc = "bg_exit"
    /\ ivResult.kind = "ok"
    /\ sweep.all_ids = <<2>>
    /\ sweep.i = 2
    /\ 1 \in DOMAIN records
    /\ hist.last[1].by = "monitor"
    /\ hist.last[1].swept = -1
    /\ hist.last[2].swept = 1

\* C18: when the metadata query for an item fails during fetch_sizes, the sweep writes
\* nothing for that item and goes on with the next id of the snapshot; the loop is
\* left only from its head, on cancellation or past the last snapshot id; and the
\* sweep, once in its loop, terminates.
SweepSurvivesStatFailure ==
    /\ [][/\ (bgpc = "fs_stat" /\ bgpc' # bgpc /\ sweep'.size = -1) =>
                /\ records' = records
                /\ bgpc' = "fs_loop"
                /\ sweep'.i = sweep.i + 1
                /\ sweep'.all_ids = sweep.all_ids
          /\ (bgpc \in Sweeping /\ bgpc' = "bg_exit") =>
                bgpc = "fs_loop" /\ (cancelled \/ sweep.i > Len(sweep.all_ids))
          /\ (bgpc = "fs_loop" /\ bgpc' # bgpc /\ ~cancelled
                /\ sweep.i <= Len(sweep.all_ids)) => bgpc' = "fs_read"]_vars
    /\ (bgpc \in Sweeping) ~> (bgpc = "bg_exit")

\* the query for the first snapshot id failed: the file's size is still unknown and
\* the sweep is at the second id
SweepWentOnAfterStatFailure ==
    /\ bgpc = "fs_read"
    /\ ~cancelled
    /\ sweep.size = -1
    /\ sweep.i = 2
    /\ sweep.all_ids = <<2, 1>>
    /\ records[2].size = 0

\* C19: once the shared cancellation signal is set, each background loop eventually
\* stops: the background thread ends (the bulk loader returns, the sweep commits at
\* most one further size and returns) and the monitor, from inside its loop, finishes
\* the drain in progress, starts no new drain and returns Ok.  Stopping undoes
\* nothing: after the signal every key stays, a record changes only by a further
\* complete upsert or size commit, and the returns themselves leave the Store as it
\* is.
LoopsStopOnCancel ==
    /\ cancelled ~> (bgpc = "bg_exit" /\ mpc = "m_exit")
    /\ [](hist.commits_after <= 1 /\ hist.inserts_after <= 1)
    /\ [][cancelled =>
             /\ (mpc = "m_poll" /\ mpc' # mpc) => mpc' = "m_exit" /\ mon'.result.kind = "ok"
             /\ (mpc' = "m_drain" /\ mpc' # mpc) => mpc = "m_insert"
             /\ (mpc' = "m_exit" /\ mpc' # mpc) => records' = records
             /\ (bgpc' \in {"iv_return", "bg_exit"} /\ bgpc' # bgpc) => records' = records
             /\ \A k \in DOMAIN records :
                   /\ k \in DOMAIN records'
                   /\ records'[k] # records[k] => (UpsertsId(k) \/ CommitsSizeOf(k))]_vars

\* both threads are over after a cancellation that let the sweep commit one more
\* size; the monitor returned Ok; the Store holds both records
AllStoppedAfterCancel ==
    /\ cancelled
    /\ bgpc = "bg_exit"
    /\ mpc = "m_exit"
    /\ mon.result.kind = "ok"
    /\ hist.commits_after = 1
    /\ DOMAIN records = {1, 2}

\* C20: the size sweep never runs concurrently with the bulk load: while index_volume
\* has not returned fetch_sizes has not started, fetch_sizes is only ever running
\* after index_volume returned without error (and never after it returned an error),
\* and the monitor's insert is never held back by either: whenever the monitor is at
\* its insert, the insert can be taken, wherever the background thread is.
SweepFollowsLoad ==
    /\ ivResult.kind = "none" <=> bgpc \in {"iv_open", "iv_query", "iv_enum_new"} \cup Draining
    /\ ivResult.kind # "ok" => sweep = SweepIdle
    /\ bgpc \in {"fs_snapshot", "fs_collect"} \cup Sweeping =>
          ivResult.kind = "ok" /\ entry = NoItem
    /\ mpc = "m_insert" => ENABLED MonInsert

\* the monitor replaced the loader's record of id 1 and is at its next insert while
\* the sweep is between its read and its commit for the loader's file
MonitorWritesDuringSweep ==
    /\ bgpc = "fs_stat"
    /\ mpc = "m_insert"
    /\ hist.loaded = {1, 2}
    /\ hist.last[1].by = "monitor"
    /\ hist.last[1].over = "loader"
    /\ hist.last[2].by = "loader"

\* the step is a refill of MftIter::next that took a response into the buffer
Refills ==
    /\ bgpc = "iter_next"
    /\ ~(it.offset < it.bytes_read)
    /\ it' # it

\* C21: the enumerator starts with cursor 0 and every refill queries from the cursor
\* returned at the head of the previous response: a refill takes a response to the
\* query from the current cursor and makes the cursor at its head the current one,
\* and nothing else changes the cursor; a response that holds only the cursor emits
\* no entry and leaves the enumerator at another refill; an end-of-journal result
\* ends the sequence without an error; any other failure yields an error that names
\* the cursor used for the failed query.
EnumeratorFollowsCursor ==
    [][/\ (bgpc = "iv_enum_new" /\ bgpc' = "iter_next") => it'.next_start_fid = 0
       /\ Refills =>
             \E r \in EnumResponses(it.next_start_fid) :
                /\ r.kind = "data"
                /\ it'.next_start_fid = r.next
                /\ it'.bytes_read = r.bytes_returned
                /\ it'.offset = CursorBytes
       /\ (bgpc \in Draining /\ ~Refills) => it'.next_start_fid = it.next_start_fid
       /\ (Refills /\ it'.bytes_read = CursorBytes) =>
             /\ entry' = NoItem
             /\ bgpc' = "iter_next"
             /\ ~(it'.offset < it'.bytes_read)
       /\ (bgpc = "iter_next" /\ bgpc' = "iv_return") => ivResult' = IvOk /\ it' = it
       /\ (entry'.kind = "err" /\ entry.kind # "err") =>
             /\ bgpc = "iter_next" /\ ~(it.offset < it.bytes_read)
             /\ entry'.fid = it.next_start_fid
             /\ it' = it]_vars

\* a response that held the cursor 1 alone was taken, and the query from cursor 1
\* then failed: the error names 1
FailedAfterCursorOnlyResponse ==
    /\ entry.kind = "err"
    /\ entry.fid = 1
    /\ it.next_start_fid = 1
    /\ it.bytes_read = CursorBytes

\* the step is MftIter::next yielding an entry from the buffer
Yields == bgpc = "iter_next" /\ bgpc' = "iv_check" /\ entry'.kind = "ok"

\* C22: the enumerator's sequence stays inside the response buffer: every entry it
\* yields is parsed from a record that lies wholly within the bytes returned by the
\* current query, each yielded entry advances the parse offset by a positive amount,
\* and a record whose declared length is zero or would read past the returned bytes
\* is not yielded.
EnumeratorStaysInBuffer ==
    [][Yields =>
          /\ it.buffer[it.offset].RecordLength > 0
          /\ it.offset + it.buffer[it.offset].RecordLength <= it.bytes_read
          /\ it'.offset > it.offset]_vars

\* C23: in every reachable state every record in the Store is stored under its own
\* id: for each key k present, the record's id field equals k, whichever of the bulk
\* loader, the size sweep and the journal monitor wrote last.
StoredUnderOwnId == \A k \in DOMAIN records : records[k].id = k

\* all three writers have written key 2: the monitor's upsert, the loader's insert
\* over it, and the sweep's size on top; the monitor wrote key 1 last
AllWritersWroteKey ==
    /\ DOMAIN records = {1, 2}
    /\ hist.last[2].by = "loader"
    /\ hist.last[2].over = "monitor"
    /\ hist.last[2].swept = 1
    /\ hist.last[1].by = "monitor"
    /\ records[2].size = 1

\* C24: no context asks for a Store lock while it holds one, and none holds one
\* across a metadata query or the sleep, so the contexts never deadlock on the Store.
\* Between steps the only lock held is the Ref of the view's row: whenever a Ref is
\* held its holder is drawing that row, not walking a chain or starting a get, and
\* the holder's only step gives the Ref back; the loader, the sweep and the monitor
\* keep none from one step to the next, so their metadata queries and the sleep
\* wait for nobody, and each of them waiting at a write can go on as soon as the
\* row is done.
RefHeld == walk.ref # {}

StoreLocksNeverNest ==
    /\ [](RefHeld => walk.pc = "row" /\ ENABLED RowDrop)
    /\ [](bgpc = "iv_insert" => ENABLED IvInsert \/ RefHeld)
    /\ [](bgpc = "fs_commit" => ENABLED FsCommit \/ RefHeld)
    /\ [](mpc = "m_insert" => ENABLED MonInsert \/ RefHeld)
    /\ [][RefHeld /\ walk' # walk => walk'.pc = "idle" /\ walk'.ref = {}]_vars
    /\ [](bgpc = "fs_stat" => ENABLED FsStat)
    /\ [](mpc = "m_stat" => ENABLED MonStat)
    /\ [](mpc = "m_sleep" => ENABLED MonSleep)

\* the view holds the Ref of a row while the monitor waits to insert and the sweep
\* is inside its metadata query
WriterWaitedForRow ==
    /\ walk.pc = "row"
    /\ walk.ref = {walk.id}
    /\ mpc = "m_insert"
    /\ ~ENABLED MonInsert
    /\ bgpc = "fs_stat"

=============================================================================
